---- MODULE Spec2Model ----
(***************************************************************************)
(* Prime-field arithmetic (ecc/field.rs, arbitrary precision) and the      *)
(* elliptic-curve point group built on it (ecc/curve.rs), with the         *)
(* secp256k1 wrapper (ecc/secp256k1.rs), and the fixed-width field         *)
(* arithmetic (ecc/field_element.rs, ecc/math_helpers.rs).                 *)
(*                                                                         *)
(* A Rust panic is modelled as the value Panic(kind); every operator that  *)
(* receives a panic as an operand returns it (unwinding).                  *)
(***************************************************************************)
EXTENDS Integers, Sequences, FiniteSets, TLC

VARIABLES
    order,      \* the prime modulus of the curve's field
    curve_a,    \* FieldElement a of  y^2 = x^3 + a*x + b
    curve_b,    \* FieldElement b
    P, Q,       \* two EcPoint values held by the caller
    res,        \* what the last curve operation did
    e1, e2,     \* two FieldElement values held by the caller
    fres,       \* what the last field operation did
    frame       \* the locals of a scalar multiplication that is running

vars == <<order, curve_a, curve_b, P, Q, res, e1, e2, fres, frame>>
curveVars == <<order, curve_a, curve_b, P, Q, res, frame>>
fieldVars == <<e1, e2, fres>>

(***************************************************************************)
(* Bounds of the model.                                                    *)
(***************************************************************************)
MaxOrder == 5       \* the curve's field order ranges over the primes 5..MaxOrder
MaxCoefficient == 1 \* curve coefficients a, b range over 0..MaxCoefficient
MaxScalar == 4      \* scalars of a multiplication range over -1..MaxScalar
MaxS256Value == 2   \* coordinates given to S256Point::new range over 0..MaxS256Value
MaxFieldOrder == 7  \* the orders of the field specification are the primes up to it
MaxExp == 3         \* exponents of pow range over -MaxExp..MaxExp

IsPrime(n) == n >= 2 /\ \A d \in 2..(n - 1) : n % d # 0

\* the chord and tangent formulas are those of characteristic above 3
CurveOrders == {n \in 2..MaxOrder : IsPrime(n) /\ n > 3}
FieldOrders == {n \in 2..MaxFieldOrder : IsPrime(n)}

(***************************************************************************)
(* Panics.                                                                 *)
(***************************************************************************)
Panic(kind) == [panic |-> kind]
IsPanic(v) == "panic" \in DOMAIN v

(***************************************************************************)
(* ecc/field.rs: FieldElement { value, order }                             *)
(***************************************************************************)
FieldElement(v, o) == [value |-> v, order |-> o]

\* rug rem_euc: the non-negative remainder
rem_euc(n, m) == n % m

\* rug pow_mod_ref with a non-negative exponent: base^exp mod m, 0^0 = 1
RECURSIVE pow_mod(_, _, _)
pow_mod(base, exp, m) ==
    IF exp = 0 THEN 1 % m
    ELSE LET half == pow_mod(base, exp \div 2, m)
             sq == (half * half) % m
         IN  IF exp % 2 = 1 THEN (sq * (base % m)) % m ELSE sq

\* FieldElement::new: assert!(!value.is_negative() && value <= order)
FieldElementNew(v, o) ==
    IF ~(v < 0) /\ v <= o THEN FieldElement(v, o) ELSE Panic("RangeError")

\* FieldElement::from_str: both strings are parsed as hexadecimal integers,
\* then the same assertion as new
FieldElementFromStr(v, o) ==
    IF ~(v < 0) /\ v <= o THEN FieldElement(v, o) ELSE Panic("RangeError")

is_zero(e) == e.value = 0

\* a slip in the scaling below: the product left unreduced
scaleUnreduced(e, scalar) ==
    IF IsPanic(e) THEN e
    ELSE FieldElement(e.value * scalar, e.order)

scale(e, scalar) ==
    IF IsPanic(e) THEN e
    ELSE FieldElement(rem_euc(e.value * scalar, e.order), e.order)

\* a slip in the negation below: order - value left unreduced
FieldNegUnreduced(e) ==
    IF IsPanic(e) THEN e
    ELSE FieldElement(e.order - e.value, e.order)

FieldNeg(e) ==
    IF IsPanic(e) THEN e
    ELSE FieldElement(rem_euc(-e.value, e.order), e.order)

FieldAdd(l, r) ==
    IF IsPanic(l) THEN l ELSE IF IsPanic(r) THEN r
    ELSE IF l.order # r.order THEN Panic("OrderMismatch")
    ELSE FieldElement(rem_euc(l.value + r.value, l.order), l.order)

\* a slip in the subtraction below: the assertion on the orders left out
FieldSubUnchecked(l, r) ==
    IF IsPanic(l) THEN l ELSE IF IsPanic(r) THEN r
    ELSE FieldElement(rem_euc(l.value - r.value, l.order), l.order)

\* another slip: the truncating remainder, which has the sign of the
\* difference, in the place of rem_euc
FieldSubTruncating(l, r) ==
    IF IsPanic(l) THEN l ELSE IF IsPanic(r) THEN r
    ELSE IF l.order # r.order THEN Panic("OrderMismatch")
    ELSE LET d == l.value - r.value
         IN  FieldElement(IF d < 0 THEN -((-d) % l.order) ELSE d % l.order,
                          l.order)

FieldSub(l, r) ==
    IF IsPanic(l) THEN l ELSE IF IsPanic(r) THEN r
    ELSE IF l.order # r.order THEN Panic("OrderMismatch")
    ELSE FieldElement(rem_euc(l.value - r.value, l.order), l.order)

FieldMul(l, r) ==
    IF IsPanic(l) THEN l ELSE IF IsPanic(r) THEN r
    ELSE IF l.order # r.order THEN Panic("OrderMismatch")
    ELSE FieldElement(rem_euc(l.value * r.value, l.order), l.order)

\* Div: rhs^(order-2) mod order, times self, reduced; no test of rhs = 0
FieldDiv(l, r) ==
    IF IsPanic(l) THEN l ELSE IF IsPanic(r) THEN r
    ELSE IF l.order # r.order THEN Panic("OrderMismatch")
    ELSE LET exp == l.order - 2
             inv == pow_mod(r.value, exp, l.order)
         IN  FieldElement(rem_euc(l.value * inv, l.order), l.order)

\* Pow: the exponent is reduced by rem_euc(order - 1) first
pow(e, exp) ==
    IF IsPanic(e) THEN e
    ELSE LET ex == rem_euc(exp, e.order - 1)
         IN  FieldElement(pow_mod(e.value, ex, e.order), e.order)

(***************************************************************************)
(* ecc/field_element.rs and ecc/math_helpers.rs: the fixed-width backend,  *)
(* FieldElement { num: u64, prime: u64 }.  The machine widths are scaled   *)
(* down, keeping their proportions: u64 is 8 bits here, i32 (half a word,  *)
(* signed) 4 bits and i128 (two words, signed) 16 bits.  An unchecked u64  *)
(* multiplication that overflows panics in a debug build and wraps in a    *)
(* release build.                                                          *)
(***************************************************************************)
U64_MAX == 255      \* stands for u64::MAX = 2^64 - 1
I32_MAX == 7        \* stands for i32::MAX = 2^31 - 1
I128_MAX == 32767   \* stands for i128::MAX = 2^127 - 1

Builds == {"debug", "release"}

U64FieldElement(n, p) == [num |-> n, prime |-> p]

\* the value of a u64 computation that did not panic
Done(n) == [u64 |-> n]

\* a * b in u64 arithmetic, reduced modulo m
u64_mul_rem(a, b, m, build) ==
    IF a * b > U64_MAX /\ build = "debug" THEN Panic("Overflow")
    ELSE Done(((a * b) % (U64_MAX + 1)) % m)

\* the loop of mod_pow: while exp > 0 { if exp % 2 == 1 { result =
\* (result * base) % modulus } base = (base * base) % modulus; exp /= 2 }
RECURSIVE mod_pow_loop(_, _, _, _, _)
mod_pow_loop(result, base, exp, modulus, build) ==
    IF exp > 0
    THEN LET r == IF exp % 2 = 1 THEN u64_mul_rem(result, base, modulus, build)
                  ELSE Done(result)
             b == u64_mul_rem(base, base, modulus, build)
         IN  IF IsPanic(r) THEN r
             ELSE IF IsPanic(b) THEN b
             ELSE mod_pow_loop(r.u64, b.u64, exp \div 2, modulus, build)
    ELSE Done(result)

\* math_helpers::mod_pow(base, exp, modulus)
mod_pow(base, exp, modulus, build) ==
    IF modulus = 1 THEN Done(0)
    ELSE mod_pow_loop(1, base % modulus, exp, modulus, build)

\* FieldElement::new: assert!(num < prime)
U64FieldElementNew(n, p) ==
    IF n < p THEN U64FieldElement(n, p) ELSE Panic("RangeError")

\* the loop of pow: while exp < 0 { exp += prime_i32 - 1 }
RECURSIVE exp_loop(_, _)
exp_loop(exp, prime_i32) ==
    IF exp < 0 THEN exp_loop(exp + (prime_i32 - 1), prime_i32) ELSE exp

\* FieldElement::pow(&self, exp: i32): the prime is converted to i32 first
U64Pow(e, exp, build) ==
    IF IsPanic(e) THEN e
    ELSE IF e.prime > I32_MAX THEN Panic("Overflow")
    ELSE LET result == mod_pow(e.num, exp_loop(exp, e.prime), e.prime, build)
         IN  IF IsPanic(result) THEN result
             ELSE U64FieldElement(result.u64, e.prime)

\* Neg: (num as i128).checked_neg(), rem_euclid(prime), try_into u64
U64Neg(e) ==
    IF IsPanic(e) THEN e
    ELSE U64FieldElement((-e.num) % e.prime, e.prime)

\* Add: assert_eq!(prime), (num as i128).checked_add, rem_euclid, try_into
U64Add(l, r) ==
    IF IsPanic(l) THEN l ELSE IF IsPanic(r) THEN r
    ELSE IF l.prime # r.prime THEN Panic("OrderMismatch")
    ELSE IF l.num + r.num > I128_MAX THEN Panic("Overflow")
    ELSE U64FieldElement((l.num + r.num) % l.prime, l.prime)

\* Sub: assert_eq!(prime), (num as i128).checked_sub, rem_euclid, try_into
U64Sub(l, r) ==
    IF IsPanic(l) THEN l ELSE IF IsPanic(r) THEN r
    ELSE IF l.prime # r.prime THEN Panic("OrderMismatch")
    ELSE U64FieldElement((l.num - r.num) % l.prime, l.prime)

\* Mul: assert_eq!(prime), (num as i128).checked_mul, rem_euclid, try_into
U64Mul(l, r) ==
    IF IsPanic(l) THEN l ELSE IF IsPanic(r) THEN r
    ELSE IF l.prime # r.prime THEN Panic("OrderMismatch")
    ELSE IF l.num * r.num > I128_MAX THEN Panic("Overflow")
    ELSE U64FieldElement((l.num * r.num) % l.prime, l.prime)

\* Div: assert_eq!(prime); exp: i32 = (rhs.prime - 2).try_into();
\* (self.num * rhs.pow(exp).num) % self.prime in u64 arithmetic
U64Div(l, r, build) ==
    IF IsPanic(l) THEN l ELSE IF IsPanic(r) THEN r
    ELSE IF l.prime # r.prime THEN Panic("OrderMismatch")
    ELSE IF r.prime - 2 > I32_MAX THEN Panic("Overflow")
    ELSE LET inv == U64Pow(r, r.prime - 2, build)
         IN  IF IsPanic(inv) THEN inv
             ELSE LET result == u64_mul_rem(l.num, inv.num, l.prime, build)
                  IN  IF IsPanic(result) THEN result
                      ELSE U64FieldElement(result.u64, l.prime)

(***************************************************************************)
(* ecc/curve.rs: Bounded<T> and EcPoint { x, y, a, b }                     *)
(***************************************************************************)
Infinity == [kind |-> "Infinity"]
Finite(e) == [kind |-> "Finite", fe |-> e]
IsFinite(c) == c.kind = "Finite"

InfinityPoint(a, b) == [x |-> Infinity, y |-> Infinity, a |-> a, b |-> b]

\* a struct literal EcPoint { x: Finite(x), y: Finite(y), a, b }; a panic
\* raised while x or y was computed unwinds instead
FinitePoint(x, y, a, b) ==
    IF IsPanic(x) THEN x ELSE IF IsPanic(y) THEN y
    ELSE [x |-> Finite(x), y |-> Finite(y), a |-> a, b |-> b]

\* a slip in the constructor below: a lone Infinity coordinate is stored
\* as given instead of giving (Infinity, Infinity)
EcPointNewKeepingMixed(x, y, a, b) ==
    IF IsFinite(x) /\ IsFinite(y)
    THEN LET lhs == pow(y.fe, 2)
             rhs == FieldAdd(FieldAdd(pow(x.fe, 3), FieldMul(a, x.fe)), b)
         IN  IF IsPanic(lhs) THEN lhs
             ELSE IF IsPanic(rhs) THEN rhs
             ELSE IF lhs # rhs THEN Panic("NotOnCurve")
             ELSE FinitePoint(x.fe, y.fe, a, b)
    ELSE [x |-> x, y |-> y, a |-> a, b |-> b]

\* EcPoint::new: the curve equation is tested only when both coordinates
\* are Finite; every other combination gives (Infinity, Infinity)
EcPointNew(x, y, a, b) ==
    IF IsFinite(x) /\ IsFinite(y)
    THEN LET lhs == pow(y.fe, 2)
             rhs == FieldAdd(FieldAdd(pow(x.fe, 3), FieldMul(a, x.fe)), b)
         IN  IF IsPanic(lhs) THEN lhs
             ELSE IF IsPanic(rhs) THEN rhs
             ELSE IF lhs # rhs THEN Panic("NotOnCurve")
             ELSE FinitePoint(x.fe, y.fe, a, b)
    ELSE InfinityPoint(a, b)

\* arm "x1 != x2 then use point addition"
ChordArm(x1, y1, x2, y2, a, b) ==
    LET s  == FieldDiv(FieldSub(y2, y1), FieldSub(x2, x1))
        x3 == FieldSub(FieldSub(pow(s, 2), x1), x2)
        y3 == FieldSub(FieldMul(s, FieldSub(x1, x3)), y1)
    IN  FinitePoint(x3, y3, a, b)

\* arm "Point + itself = find tangent line intersection"
TangentArm(x1, y1, a, b) ==
    LET s  == FieldDiv(FieldAdd(scale(pow(x1, 2), 3), a), scale(y1, 2))
        x3 == FieldSub(pow(s, 2), scale(x1, 2))
        y3 == FieldSub(FieldMul(s, FieldSub(x1, x3)), y1)
    IN  FinitePoint(x3, y3, a, b)

\* arm "Infinity + Point = Point"
InfinityPlusPointArm(x2, y2, a, b) == FinitePoint(x2, y2, a, b)

\* a slip in the arm below: the two coordinates exchanged
PointPlusInfinityArmSwapped(x1, y1, a, b) == FinitePoint(y1, x1, a, b)

\* arm "Point + Infinity = Point"
PointPlusInfinityArm(x1, y1, a, b) == FinitePoint(x1, y1, a, b)

\* a slip in the test below: only the coefficient a compared
NotSameCurveOnlyA(l, r) == l.a # r.a

\* "Not on the same curve": if self.a != rhs.a || self.b != rhs.b
NotSameCurve(l, r) == l.a # r.a \/ l.b # r.b

\* impl Add for &EcPoint: the curve test, then the match arms in source
\* order, the first arm whose pattern and guard hold being taken
EcPointAdd(l, r) ==
    IF IsPanic(l) THEN l ELSE IF IsPanic(r) THEN r
    ELSE IF NotSameCurve(l, r) THEN Panic("CurveMismatch")
    ELSE LET allFinite == IsFinite(l.x) /\ IsFinite(l.y)
                          /\ IsFinite(r.x) /\ IsFinite(r.y)
         IN
         IF ~IsFinite(l.x) /\ ~IsFinite(l.y) /\ ~IsFinite(r.x) /\ ~IsFinite(r.y)
         THEN InfinityPoint(l.a, l.b)
         ELSE IF ~IsFinite(l.x) /\ ~IsFinite(l.y) /\ IsFinite(r.x) /\ IsFinite(r.y)
         THEN InfinityPlusPointArm(r.x.fe, r.y.fe, l.a, l.b)
         ELSE IF IsFinite(l.x) /\ IsFinite(l.y) /\ ~IsFinite(r.x) /\ ~IsFinite(r.y)
         THEN PointPlusInfinityArm(l.x.fe, l.y.fe, l.a, l.b)
         ELSE IF allFinite /\ l.x.fe = r.x.fe /\ l.y.fe # r.y.fe
         THEN InfinityPoint(l.a, l.b)
         ELSE IF allFinite /\ l.x.fe # r.x.fe
         THEN ChordArm(l.x.fe, l.y.fe, r.x.fe, r.y.fe, l.a, l.b)
         ELSE IF allFinite /\ l.x.fe = r.x.fe /\ l.y.fe = r.y.fe
         THEN TangentArm(l.x.fe, l.y.fe, l.a, l.b)
         ELSE IF allFinite /\ l.x.fe = r.x.fe /\ l.y.fe = r.y.fe
                 /\ is_zero(l.y.fe)
         THEN InfinityPoint(l.a, l.b)
         ELSE Panic("UndefinedAddition")

\* the loop shared by the scalar multiplications: while rhs > 0
\* { if rhs & 1 == 1 { result = result + current }
\*   current = current + current; rhs >>= 1 }
RECURSIVE DoubleAndAdd(_, _, _)
DoubleAndAdd(result, current, rhs) ==
    IF IsPanic(result) THEN result
    ELSE IF IsPanic(current) THEN current
    ELSE IF rhs > 0
    THEN DoubleAndAdd(IF rhs % 2 = 1 THEN EcPointAdd(result, current)
                                     ELSE result,
                      EcPointAdd(current, current),
                      rhs \div 2)
    ELSE result

\* impl Mul<Integer> for &EcPoint
EcPointMulInteger(p, rhs) ==
    DoubleAndAdd(EcPointNew(Infinity, Infinity, p.a, p.b), p, rhs)

\* impl Mul<i32> for EcPoint
EcPointMulI32(p, rhs) ==
    DoubleAndAdd(EcPointNew(Infinity, Infinity, p.a, p.b), p, rhs)

\* a slip in the multiplication below: the accumulator is made with the
\* curve coefficients exchanged
I32MulEcPointSwapped(lhs, rhs) ==
    DoubleAndAdd(EcPointNew(Infinity, Infinity, rhs.b, rhs.a), rhs, lhs)

\* impl Mul<EcPoint> for i32
I32MulEcPoint(lhs, rhs) ==
    DoubleAndAdd(EcPointNew(Infinity, Infinity, rhs.a, rhs.b), rhs, lhs)

\* impl Mul<&EcPoint> for Integer
IntegerMulEcPoint(lhs, rhs) ==
    DoubleAndAdd(EcPointNew(Infinity, Infinity, rhs.a, rhs.b), rhs, lhs)

(***************************************************************************)
(* ecc/secp256k1.rs.  The 256-bit field prime is replaced by the small     *)
(* prime S256Prime; a = 0 and b = 7 are the program's.                     *)
(***************************************************************************)
S256Prime == 11
S256A == 0
S256B == 7

\* S256Field::new
S256FieldNew(v) == FieldElementFromStr(v, S256Prime)

\* S256Point::new: a coordinate is Bounded<S256Field>
S256PointNew(x, y) ==
    LET a == S256FieldNew(S256A)
        b == S256FieldNew(S256B)
    IN  IF IsPanic(a) THEN a ELSE IF IsPanic(b) THEN b
        ELSE IF IsFinite(x) /\ IsFinite(y)
        THEN EcPointNew(Finite(x.fe), Finite(y.fe), a, b)
        ELSE EcPointNew(Infinity, Infinity, a, b)

(***************************************************************************)
(* The caller of the curve operations.  It holds two points of one curve:  *)
(* Q is a point built by EcPoint::new, P is built by EcPoint::new and then *)
(* replaced by the results of additions and scalar multiplications.        *)
(***************************************************************************)
Status(v) == IF IsPanic(v) THEN v.panic ELSE "ok"

\* no scalar multiplication is running
NoFrame == [pc |-> "idle"]

Shape(x, y) ==
    IF IsFinite(x) /\ IsFinite(y) THEN "both_finite"
    ELSE IF ~IsFinite(x) /\ ~IsFinite(y) THEN "both_infinity"
    ELSE "mixed"

\* the field elements FieldElement::new builds for an order
Elements(o) ==
    {FieldElementNew(v, o) :
        v \in {w \in (-1)..(o + 1) : ~IsPanic(FieldElementNew(w, o))}}

\* the curve coefficients the caller chooses among
Coefficients(o) == {FieldElementNew(v, o) : v \in 0..MaxCoefficient}

Coordinates(o) == {Infinity} \cup {Finite(e) : e \in Elements(o)}

\* the coordinates the caller gives to S256Point::new
S256Coordinates ==
    {Infinity} \cup {Finite(S256FieldNew(v)) : v \in 0..MaxS256Value}

Scalars == (-1)..MaxScalar

Regs == {"P", "Q"}

Outcome(op, v, shape) ==
    [op |-> op, status |-> Status(v), shape |-> shape]

\* a panic leaves the caller's points as they were
Keep(dst, v) ==
    /\ P' = IF dst = "P" /\ ~IsPanic(v) THEN v ELSE P
    /\ Q' = IF dst = "Q" /\ ~IsPanic(v) THEN v ELSE Q

\* the discriminant 4a^3 + 27b^2 is not zero: the curve is elliptic
NonSingular(a, b) ==
    (4 * a.value * a.value * a.value + 27 * b.value * b.value) % a.order # 0

\* the field elements both callers hold at first
FirstElement ==
    FieldElementNew(1, CHOOSE o \in FieldOrders : \A q \in FieldOrders : q <= o)

Init ==
    /\ order \in CurveOrders
    /\ curve_a \in Coefficients(order)
    /\ curve_b \in Coefficients(order)
    /\ NonSingular(curve_a, curve_b)
    /\ P = EcPointNew(Infinity, Infinity, curve_a, curve_b)
    /\ Q = EcPointNew(Infinity, Infinity, curve_a, curve_b)
    /\ res = Outcome("init", P, "none")
    /\ e1 = FirstElement
    /\ e2 = FirstElement
    /\ fres = [op |-> "init", status |-> "ok", arg |-> "none"]
    /\ frame = NoFrame

\* let dst = EcPoint::new(x, y, a, b)
NewPoint(dst, x, y) ==
    LET v == EcPointNew(x, y, curve_a, curve_b)
    IN  /\ res' = Outcome("new", v, Shape(x, y))
        /\ Keep(dst, v)
        /\ UNCHANGED <<order, curve_a, curve_b, fieldVars, frame>>

\* S256Point::new(x, y); an S256Point is no operand of the operations below
NewS256Point(x, y) ==
    LET v == S256PointNew(x, y)
    IN  /\ res' = Outcome("s256_new", v, Shape(x, y))
        /\ UNCHANGED <<order, curve_a, curve_b, P, Q, fieldVars, frame>>

\* P = &P + &Q
AddPoints ==
    LET v == EcPointAdd(P, Q)
    IN  /\ res' = Outcome("add", v, "none")
        /\ Keep("P", v)
        /\ UNCHANGED <<order, curve_a, curve_b, fieldVars, frame>>

\* P = &P * Integer::from(k)
MulInteger(k) ==
    LET v == EcPointMulInteger(P, k)
    IN  /\ res' = Outcome("mul_integer", v, "none")
        /\ Keep("P", v)
        /\ UNCHANGED <<order, curve_a, curve_b, fieldVars, frame>>

\* P = P * k  (k: i32)
MulI32(k) ==
    LET v == EcPointMulI32(P, k)
    IN  /\ res' = Outcome("mul_i32", v, "none")
        /\ Keep("P", v)
        /\ UNCHANGED <<order, curve_a, curve_b, fieldVars, frame>>

Next ==
    \/ \E dst \in Regs : \E x, y \in Coordinates(order) : NewPoint(dst, x, y)
    \/ \E x, y \in S256Coordinates : NewS256Point(x, y)
    \/ AddPoints
    \/ \E k \in Scalars : MulInteger(k)
    \/ \E k \in Scalars : MulI32(k)

Spec == Init /\ [][Next]_vars

(***************************************************************************)
(* The caller of the field operations.  It holds two field elements, e1    *)
(* and e2, possibly of different orders; a result replaces e1.             *)
(***************************************************************************)
FieldValues == (-1)..(MaxFieldOrder + 1)

Exponents == (-MaxExp)..MaxExp

\* where a value given to a constructor lies
ArgClass(v, o) ==
    IF v < 0 THEN "negative"
    ELSE IF v < o THEN "below_order"
    ELSE IF v = o THEN "equal_order"
    ELSE "above_order"

FieldOutcome(op, v, arg) == [op |-> op, status |-> Status(v), arg |-> arg]

FieldKeep(dst, v) ==
    /\ e1' = IF dst = "e1" /\ ~IsPanic(v) THEN v ELSE e1
    /\ e2' = IF dst = "e2" /\ ~IsPanic(v) THEN v ELSE e2

FieldInit ==
    /\ order = MaxOrder
    /\ curve_a = FieldElementNew(0, MaxOrder)
    /\ curve_b = FieldElementNew(1, MaxOrder)
    /\ P = EcPointNew(Infinity, Infinity, curve_a, curve_b)
    /\ Q = EcPointNew(Infinity, Infinity, curve_a, curve_b)
    /\ res = Outcome("init", P, "none")
    /\ e1 = FirstElement
    /\ e2 = FirstElement
    /\ fres = [op |-> "init", status |-> "ok", arg |-> "none"]
    /\ frame = NoFrame

\* let dst = FieldElement::new(v, o)
NewElement(dst, v, o) ==
    LET r == FieldElementNew(v, o)
    IN  /\ fres' = FieldOutcome("new", r, ArgClass(v, o))
        /\ FieldKeep(dst, r)
        /\ UNCHANGED curveVars

\* let dst = FieldElement::from_str(v, o)
ElementFromStr(dst, v, o) ==
    LET r == FieldElementFromStr(v, o)
    IN  /\ fres' = FieldOutcome("from_str", r, ArgClass(v, o))
        /\ FieldKeep(dst, r)
        /\ UNCHANGED curveVars

\* e1 = -&e1
NegElement ==
    LET r == FieldNeg(e1)
    IN  /\ fres' = FieldOutcome("neg", r, "none")
        /\ FieldKeep("e1", r)
        /\ UNCHANGED curveVars

\* e1 = &e1 + &e2
AddElements ==
    LET r == FieldAdd(e1, e2)
    IN  /\ fres' = FieldOutcome("add", r, "none")
        /\ FieldKeep("e1", r)
        /\ UNCHANGED curveVars

\* e1 = &e1 - &e2
SubElements ==
    LET r == FieldSub(e1, e2)
    IN  /\ fres' = FieldOutcome("sub", r, "none")
        /\ FieldKeep("e1", r)
        /\ UNCHANGED curveVars

\* e1 = &e1 * &e2
MulElements ==
    LET r == FieldMul(e1, e2)
    IN  /\ fres' = FieldOutcome("mul", r, "none")
        /\ FieldKeep("e1", r)
        /\ UNCHANGED curveVars

\* e1 = &e1 / &e2
DivElements ==
    LET r == FieldDiv(e1, e2)
    IN  /\ fres' = FieldOutcome("div", r, "none")
        /\ FieldKeep("e1", r)
        /\ UNCHANGED curveVars

\* e1 = e1.pow(n)
PowElement(n) ==
    LET r == pow(e1, n)
    IN  /\ fres' = FieldOutcome("pow", r, "none")
        /\ FieldKeep("e1", r)
        /\ UNCHANGED curveVars

\* how many times a scalar takes its operand
ScalarClass(n) ==
    IF n < 0 THEN "negative"
    ELSE IF n = 0 THEN "zero"
    ELSE IF n = 1 THEN "one"
    ELSE "many"

\* e1 = e1.scale(n)
ScaleElement(n) ==
    LET r == scale(e1, n)
    IN  /\ fres' = FieldOutcome("scale", r, ScalarClass(n))
        /\ FieldKeep("e1", r)
        /\ UNCHANGED curveVars

FieldRegs == {"e1", "e2"}

FieldNext ==
    \/ \E dst \in FieldRegs : \E v \in FieldValues : \E o \in FieldOrders :
           NewElement(dst, v, o)
    \/ \E dst \in FieldRegs : \E v \in FieldValues : \E o \in FieldOrders :
           ElementFromStr(dst, v, o)
    \/ NegElement
    \/ AddElements
    \/ SubElements
    \/ MulElements
    \/ DivElements
    \/ \E n \in Exponents : PowElement(n)
    \/ \E n \in 0..MaxExp : ScaleElement(n)

FieldSpec == FieldInit /\ [][FieldNext]_vars

(***************************************************************************)
(* The caller of EcPoint::new alone.  It holds the two field elements it   *)
(* passes as Finite(e1), Finite(e2) and the coefficients curve_a, curve_b, *)
(* all built by FieldElement::new for one prime order, the smallest primes *)
(* included.                                                               *)
(***************************************************************************)
NewInit ==
    /\ order \in FieldOrders
    /\ curve_a \in Elements(order)
    /\ curve_b \in Elements(order)
    /\ e1 \in Elements(order)
    /\ e2 \in Elements(order)
    /\ P = EcPointNew(Infinity, Infinity, curve_a, curve_b)
    /\ Q = EcPointNew(Infinity, Infinity, curve_a, curve_b)
    /\ res = Outcome("init", P, "none")
    /\ fres = [op |-> "init", status |-> "ok", arg |-> "none"]
    /\ frame = NoFrame

\* let dst = EcPoint::new(Finite(e1), Finite(e2), a, b)
NewNext == \E dst \in Regs : NewPoint(dst, Finite(e1), Finite(e2))

NewSpec == NewInit /\ [][NewNext]_vars

(***************************************************************************)
(* The caller of add alone.  It holds two points built by EcPoint::new,    *)
(* each on a curve of its own choice, and adds the second to the first.    *)
(***************************************************************************)
\* the points EcPoint::new returns on the curve (a, b)
PointsOn(a, b) ==
    {v \in {EcPointNew(x, y, a, b) : x, y \in Coordinates(a.order)} :
        ~IsPanic(v)}

\* the points of all the curves the caller chooses among, of the fields of
\* characteristic above 3
AnyPoints ==
    UNION {PointsOn(a, b) :
              a, b \in UNION {Coefficients(o) : o \in FieldOrders \ {2, 3}}}

\* a point of the curve y^2 = x^3 + 7 over F_223 of the addition tests
VectorPoint(x, y) ==
    EcPointNew(Finite(FieldElementNew(x, 223)), Finite(FieldElementNew(y, 223)),
               FieldElementNew(0, 223), FieldElementNew(7, 223))

\* the operands of tests::test_finite_field_ec_addition and of
\* tests::test_add_point_to_itself
VectorPoints ==
    {VectorPoint(170, 142), VectorPoint(60, 139), VectorPoint(47, 71),
     VectorPoint(17, 56), VectorPoint(143, 98), VectorPoint(76, 66),
     VectorPoint(192, 105)}

AddInit ==
    /\ order \in CurveOrders
    /\ curve_a = FieldElementNew(0, order)
    /\ curve_b = FieldElementNew(1, order)
    /\ P \in AnyPoints \cup VectorPoints
    /\ Q \in AnyPoints \cup VectorPoints
    /\ res = Outcome("init", P, "none")
    /\ e1 = FirstElement
    /\ e2 = FirstElement
    /\ fres = [op |-> "init", status |-> "ok", arg |-> "none"]
    /\ frame = NoFrame

AddNext == AddPoints

AddSpec == AddInit /\ [][AddNext]_vars

(***************************************************************************)
(* The caller of the field operations of either backend.  It holds two     *)
(* elements of one backend, built by that backend's FieldElement::new, and *)
(* applies the operations to them; a result replaces e1.                   *)
(***************************************************************************)
MaxU64Order == 13   \* the fixed-width fields are the primes up to it and the largest
MaxU64Num == 16     \* values of the largest field: 0..MaxU64Num and the two highest

IsU64(e) == "num" \in DOMAIN e

\* the elements of the arbitrary-precision backend, of every order
AllElements == UNION {Elements(o) : o \in FieldOrders}

LargestU64Prime ==
    CHOOSE p \in 2..U64_MAX :
        IsPrime(p) /\ \A q \in (p + 1)..U64_MAX : ~IsPrime(q)

U64Orders == {p \in 2..MaxU64Order : IsPrime(p)} \cup {LargestU64Prime}

\* the elements of the fixed-width backend
U64Elements ==
    {U64FieldElementNew(n, p) :
        <<n, p>> \in {np \in (0..U64_MAX) \X U64Orders :
                        /\ ~IsPanic(U64FieldElementNew(np[1], np[2]))
                        /\ (np[1] <= MaxU64Num \/ np[1] >= np[2] - 2)}}

BackendInit ==
    /\ order = MaxOrder
    /\ curve_a = FieldElementNew(0, MaxOrder)
    /\ curve_b = FieldElementNew(1, MaxOrder)
    /\ P = EcPointNew(Infinity, Infinity, curve_a, curve_b)
    /\ Q = EcPointNew(Infinity, Infinity, curve_a, curve_b)
    /\ res = Outcome("init", P, "none")
    /\ \/ e1 \in U64Elements /\ e2 \in U64Elements
       \/ e1 \in AllElements /\ e2 \in AllElements
    /\ fres = [op |-> "init", status |-> "ok", arg |-> "none"]
    /\ frame = NoFrame

\* e1 = -e1
U64NegElement ==
    LET r == U64Neg(e1)
    IN  /\ fres' = FieldOutcome("neg", r, "none")
        /\ FieldKeep("e1", r)
        /\ UNCHANGED curveVars

\* e1 = e1 + e2
U64AddElements ==
    LET r == U64Add(e1, e2)
    IN  /\ fres' = FieldOutcome("add", r, "none")
        /\ FieldKeep("e1", r)
        /\ UNCHANGED curveVars

\* e1 = e1 - e2
U64SubElements ==
    LET r == U64Sub(e1, e2)
    IN  /\ fres' = FieldOutcome("sub", r, "none")
        /\ FieldKeep("e1", r)
        /\ UNCHANGED curveVars

\* e1 = e1 * e2
U64MulElements ==
    LET r == U64Mul(e1, e2)
    IN  /\ fres' = FieldOutcome("mul", r, "none")
        /\ FieldKeep("e1", r)
        /\ UNCHANGED curveVars

\* e1 = e1 / e2
U64DivElements(build) ==
    LET r == U64Div(e1, e2, build)
    IN  /\ fres' = FieldOutcome("div", r, build)
        /\ FieldKeep("e1", r)
        /\ UNCHANGED curveVars

\* e1 = e1.pow(n)
U64PowElement(n, build) ==
    LET r == U64Pow(e1, n, build)
    IN  /\ fres' = FieldOutcome("pow", r, build)
        /\ FieldKeep("e1", r)
        /\ UNCHANGED curveVars

\* e1.num = mod_pow(e1.num, e2.num, e1.prime)
ModPowNums(build) ==
    LET r == mod_pow(e1.num, e2.num, e1.prime, build)
    IN  /\ fres' = FieldOutcome("mod_pow", r, build)
        /\ e1' = IF IsPanic(r) THEN e1 ELSE U64FieldElement(r.u64, e1.prime)
        /\ e2' = e2
        /\ UNCHANGED curveVars

\* the operations of e1's backend
BackendNext ==
    \/ ~IsU64(e1) /\ NegElement
    \/ ~IsU64(e1) /\ AddElements
    \/ ~IsU64(e1) /\ SubElements
    \/ ~IsU64(e1) /\ MulElements
    \/ ~IsU64(e1) /\ DivElements
    \/ ~IsU64(e1) /\ \E n \in Exponents : PowElement(n)
    \/ ~IsU64(e1) /\ \E n \in 0..MaxExp : ScaleElement(n)
    \/ IsU64(e1) /\ U64NegElement
    \/ IsU64(e1) /\ U64AddElements
    \/ IsU64(e1) /\ U64SubElements
    \/ IsU64(e1) /\ U64MulElements
    \/ IsU64(e1) /\ \E build \in Builds : U64DivElements(build)
    \/ IsU64(e1) /\ \E build \in Builds : \E n \in Exponents :
                        U64PowElement(n, build)
    \/ IsU64(e1) /\ \E build \in Builds : ModPowNums(build)

BackendSpec == BackendInit /\ [][BackendNext]_vars

(***************************************************************************)
(* One scalar multiplication, statement by statement.  The four            *)
(* implementations (EcPoint * i32, i32 * EcPoint, &EcPoint * Integer,      *)
(* Integer * &EcPoint) run the same loop; frame holds the locals result,   *)
(* current and the remaining scalar rhs (lhs in the two implementations    *)
(* with the scalar on the left), the scalar k the call was given, and      *)
(* counts the iterations and the accumulator additions.                    *)
(***************************************************************************)
MaxLoopScalar == 9

Impls == {"EcPoint*i32", "i32*EcPoint", "&EcPoint*Integer", "Integer*&EcPoint"}

LoopScalars == (-MaxLoopScalar)..MaxLoopScalar

\* the curves the caller multiplies on
LoopCurves ==
    {c \in UNION {Coefficients(o) \X Coefficients(o) : o \in FieldOrders \ {2, 3}} :
        NonSingular(c[1], c[2])}

\* let mut result = EcPoint::new(Infinity, Infinity, a, b);
\* let mut current = self.clone(); let mut rhs = rhs;
EnterMul(impl, p, k) ==
    [pc |-> "loop", impl |-> impl, k |-> k, rhs |-> k,
     result |-> EcPointNew(Infinity, Infinity, p.a, p.b), current |-> p,
     iterations |-> 0, additions |-> 0]

LoopInit ==
    /\ order \in FieldOrders \ {2, 3}
    /\ \E c \in {d \in LoopCurves : d[1].order = order} :
           curve_a = c[1] /\ curve_b = c[2]
    /\ P \in PointsOn(curve_a, curve_b)
    /\ Q = EcPointNew(Infinity, Infinity, curve_a, curve_b)
    /\ res = Outcome("init", P, "none")
    /\ e1 = FirstElement
    /\ e2 = FirstElement
    /\ fres = [op |-> "init", status |-> "ok", arg |-> "none"]
    /\ frame \in {EnterMul(impl, P, k) : impl \in Impls, k \in LoopScalars}

\* a slip in the loop body below: the scalar is not shifted
LoopBodyNoShift(f) ==
    LET bit == f.rhs % 2
        sum == IF bit = 1 THEN EcPointAdd(f.result, f.current) ELSE f.result
        dbl == EcPointAdd(f.current, f.current)
    IN  IF IsPanic(sum) THEN sum
        ELSE IF IsPanic(dbl) THEN dbl
        ELSE [f EXCEPT !.result = sum,
                       !.current = dbl,
                       !.iterations = @ + 1,
                       !.additions = @ + bit]

\* if rhs & 1 == 1 { result = &result + &current; }
\* current = &current + &current; rhs >>= 1;
\* gives the locals after the pass, or the panic of its addition or doubling
LoopBody(f) ==
    LET bit == f.rhs % 2
        sum == IF bit = 1 THEN EcPointAdd(f.result, f.current) ELSE f.result
        dbl == EcPointAdd(f.current, f.current)
    IN  IF IsPanic(sum) THEN sum
        ELSE IF IsPanic(dbl) THEN dbl
        ELSE [f EXCEPT !.result = sum,
                       !.current = dbl,
                       !.rhs = @ \div 2,
                       !.iterations = @ + 1,
                       !.additions = @ + bit]

\* a slip in the loop condition below: while rhs != 0
LoopIterationWhileNonZero ==
    /\ frame.pc = "loop"
    /\ frame.rhs # 0
    /\ frame' = IF IsPanic(LoopBody(frame))
                THEN [frame EXCEPT !.pc = "panicked"]
                ELSE LoopBody(frame)
    /\ res' = IF IsPanic(LoopBody(frame))
              THEN Outcome(frame.impl, LoopBody(frame), "none")
              ELSE res
    /\ UNCHANGED <<order, curve_a, curve_b, P, Q, fieldVars>>

\* one pass of  while rhs > 0 { ... }
LoopIteration ==
    /\ frame.pc = "loop"
    /\ frame.rhs > 0
    /\ frame' = IF IsPanic(LoopBody(frame))
                THEN [frame EXCEPT !.pc = "panicked"]
                ELSE LoopBody(frame)
    /\ res' = IF IsPanic(LoopBody(frame))
              THEN Outcome(frame.impl, LoopBody(frame), "none")
              ELSE res
    /\ UNCHANGED <<order, curve_a, curve_b, P, Q, fieldVars>>

\* the loop condition is false: the call returns result
LoopExit ==
    /\ frame.pc = "loop"
    /\ ~(frame.rhs > 0)
    /\ frame' = [frame EXCEPT !.pc = "done"]
    /\ res' = Outcome(frame.impl, frame.result, "none")
    /\ UNCHANGED <<order, curve_a, curve_b, P, Q, fieldVars>>

LoopNext ==
    \/ LoopIteration
    \/ LoopExit

LoopSpec == LoopInit /\ [][LoopNext]_vars

(***************************************************************************)
(* Vocabulary of the properties.                                           *)
(***************************************************************************)
IsInfinityPoint(pt) == ~IsFinite(pt.x) /\ ~IsFinite(pt.y)
IsFinitePoint(pt) == IsFinite(pt.x) /\ IsFinite(pt.y)

\* y^2 = x^3 + a*x + b in the integers modulo the order, or the identity
OnCurve(pt) ==
    \/ IsInfinityPoint(pt)
    \/ /\ IsFinitePoint(pt)
       /\ LET x == pt.x.fe.value
              y == pt.y.fe.value
          IN  (y * y) % pt.a.order
                = (x * x * x + pt.a.value * x + pt.b.value) % pt.a.order

\* the points EcPoint::new returns on the caller's curve
ValidPoints ==
    {v \in {EcPointNew(x, y, curve_a, curve_b) :
                x, y \in Coordinates(order)} : ~IsPanic(v)}

\* p added to itself k times by add, starting from the identity
RECURSIVE RepeatedAdd(_, _)
RepeatedAdd(p, k) ==
    IF k = 0 THEN EcPointNew(Infinity, Infinity, p.a, p.b)
    ELSE EcPointAdd(RepeatedAdd(p, k - 1), p)

\* C1: every point returned by add or by a scalar multiplication, after any
\* sequence of such operations that started from points built by
\* EcPoint::new, is the identity or satisfies the curve equation.
C1_Closure ==
    (res.op \in {"add", "mul_integer", "mul_i32"} /\ res.status = "ok")
        => OnCurve(P)

\* C2: adding a finite point whose y is the zero element to itself returns
\* the identity (Infinity, Infinity).
C2_TwoTorsionDoubling ==
    [][(AddPoints /\ IsFinitePoint(P) /\ P = Q /\ is_zero(P.y.fe))
          => (res'.status = "ok" /\ IsInfinityPoint(P'))]_vars

\* C3: for every finite point P = (x, y) built by EcPoint::new, y = 0
\* included, P + (x, -y) is the identity.
C3_Inverse ==
    [][(AddPoints /\ P \in ValidPoints /\ Q \in ValidPoints
          /\ IsFinitePoint(P) /\ IsFinitePoint(Q)
          /\ Q.x.fe = P.x.fe /\ Q.y.fe = FieldNeg(P.y.fe))
          => (res'.status = "ok" /\ IsInfinityPoint(P'))]_vars

\* C4: P + Inf is P and Inf + P is P, equal in x, y, a and b, for every
\* point P of the curve, the identity included.
C4_Identity ==
    [][AddPoints
          => /\ IsInfinityPoint(Q) => (res'.status = "ok" /\ P' = P)
             /\ IsInfinityPoint(P) => (res'.status = "ok" /\ P' = Q)]_vars

\* a finite point has been added to the identity and is what it was
C4_Witness ==
    /\ res.op = "add"
    /\ res.status = "ok"
    /\ IsInfinityPoint(Q)
    /\ IsFinitePoint(P)
    /\ EcPointAdd(P, Q) = P
    /\ EcPointAdd(Q, P) = P

\* C5: P + Q = Q + P for all points P, Q built by EcPoint::new on one curve.
C5_Commutativity ==
    [][(AddPoints /\ P \in ValidPoints /\ Q \in ValidPoints)
          => (res'.status = "ok" /\ P' = EcPointAdd(Q, P))]_vars

\* C6: (P + Q) + R = P + (Q + R) for all points P, Q, R built by
\* EcPoint::new on one curve.
C6_Associativity ==
    (P \in ValidPoints /\ Q \in ValidPoints)
        => \A R \in ValidPoints :
               EcPointAdd(EcPointAdd(P, Q), R) = EcPointAdd(P, EcPointAdd(Q, R))

\* C7: for every point P built by EcPoint::new and every scalar k >= 0, k*P
\* by double-and-add is P added to itself k times from the identity; 0*P is
\* the identity.
C7_ScalarConsistency ==
    [][\A k \in 0..MaxScalar :
          ((MulInteger(k) \/ MulI32(k)) /\ P \in ValidPoints)
              => /\ res'.status = "ok"
                 /\ P' = RepeatedAdd(P, k)
                 /\ (k = 0 => IsInfinityPoint(P'))]_vars

\* C10: EcPoint::new and S256Point::new given exactly one Finite coordinate
\* fail with the invalid-point error and return no point.
C10_MixedCoordinates ==
    (res.op \in {"new", "s256_new"} /\ res.shape = "mixed")
        => res.status = "InvalidPoint"

\* C8: FieldElement::new and FieldElement::from_str fail unless
\* 0 <= value < order, so every element held has value below its order.
C8_StrictRange ==
    /\ (fres.op \in {"new", "from_str"} /\ fres.arg # "below_order")
           => fres.status = "RangeError"
    /\ \A e \in {e1, e2} : 0 <= e.value /\ e.value < e.order

\* C9: a / b fails with the division-by-zero error whenever b is the zero
\* element of a's field; no element is returned.
C9_DivisionByZero ==
    (fres.op = "div" /\ is_zero(e2) /\ fres.status # "OrderMismatch")
        => fres.status = "DivisionByZero"

\* y^2 = x^3 + a*x + b in the integers modulo the order of a
EquationHolds(x, y, a, b) ==
    (y.value * y.value) % a.order
        = (x.value * x.value * x.value + a.value * x.value + b.value) % a.order

\* C11: EcPoint::new with both coordinates Finite succeeds exactly when
\* y^2 = x^3 + a*x + b holds modulo the order, and fails with the
\* not-on-curve error otherwise, for every prime order, 2 and 3 included.
C11_CurveEquation ==
    res.op = "new"
        => /\ EquationHolds(e1, e2, curve_a, curve_b) => res.status = "ok"
           /\ ~EquationHolds(e1, e2, curve_a, curve_b)
                  => res.status = "NotOnCurve"

\* C12: P + Q fails with the curve-mismatch error whenever P.a != Q.a or
\* P.b != Q.b, whatever the coordinates are, the identity point included,
\* and returns no point.
C12_CurveMismatch ==
    [][(AddPoints /\ (P.a # Q.a \/ P.b # Q.b))
          => (res'.status = "CurveMismatch" /\ P' = P)]_vars

\* the identity of one curve has been added to a finite point of a curve
\* that differs in b only, and the curve-mismatch error was raised
C12_Witness ==
    /\ res.op = "add"
    /\ res.status = "CurveMismatch"
    /\ P.a = Q.a
    /\ P.b # Q.b
    /\ IsFinitePoint(P)
    /\ IsInfinityPoint(Q)

\* the modulus of an element of either backend
OrderOf(e) == IF IsU64(e) THEN e.prime ELSE e.order

\* a step that adds, subtracts, multiplies or divides e1 and e2
BinaryStep ==
    \/ ~IsU64(e1) /\ (AddElements \/ SubElements \/ MulElements \/ DivElements)
    \/ IsU64(e1) /\ (\/ U64AddElements \/ U64SubElements \/ U64MulElements
                      \/ \E build \in Builds : U64DivElements(build))

\* C13: add, sub, mul and div of two field elements whose orders differ fail
\* with the order-mismatch error and return no element, whatever the values.
C13_OrderMismatch ==
    [][(BinaryStep /\ OrderOf(e1) # OrderOf(e2))
          => (fres'.status = "OrderMismatch" /\ e1' = e1)]_vars

\* a division of elements of different orders, the divisor being zero, has
\* failed with the order-mismatch error in the fixed-width backend
C13_Witness ==
    /\ fres.op = "div"
    /\ fres.status = "OrderMismatch"
    /\ IsU64(e1)
    /\ e1.prime # e2.prime
    /\ e2.num = 0

\* v is the Euclidean remainder of the integer n modulo m
IsEuclideanRemainder(v, n, m) ==
    /\ 0 <= v
    /\ v < m
    /\ \E q \in (-(n * n) - 1)..(n * n + 1) : n = q * m + v

\* C14: add, sub and mul of two field elements of equal order return an
\* element of that order whose value is the non-negative remainder of the
\* integer sum, difference or product modulo the order, so it lies in
\* [0, order) also when the difference is negative.
C14_EuclideanRemainder ==
    [][(e1.order = e2.order)
          => /\ AddElements
                  => /\ fres'.status = "ok"
                     /\ e1'.order = e1.order
                     /\ IsEuclideanRemainder(e1'.value, e1.value + e2.value,
                                             e1.order)
             /\ SubElements
                  => /\ fres'.status = "ok"
                     /\ e1'.order = e1.order
                     /\ IsEuclideanRemainder(e1'.value, e1.value - e2.value,
                                             e1.order)
             /\ MulElements
                  => /\ fres'.status = "ok"
                     /\ e1'.order = e1.order
                     /\ IsEuclideanRemainder(e1'.value, e1.value * e2.value,
                                             e1.order)]_vars

\* a subtraction whose integer difference was negative has returned: e1
\* now holds the difference, and adding e2 back exceeds the order
C14_Witness ==
    /\ fres.op = "sub"
    /\ fres.status = "ok"
    /\ e1.order = e2.order
    /\ e1.value + e2.value > e1.order

\* r is the point the chord formula gives for the finite points p and q:
\* s*(x2 - x1) = y2 - y1, x3 = s^2 - x1 - x2, y3 = s*(x1 - x3) - y1, in the
\* integers modulo the order
IsChordPoint(r, p, q) ==
    LET m  == p.a.order
        x1 == p.x.fe.value
        y1 == p.y.fe.value
        x2 == q.x.fe.value
        y2 == q.y.fe.value
    IN  /\ IsFinitePoint(r)
        /\ r.a = p.a /\ r.b = p.b
        /\ r.x.fe.order = m /\ r.y.fe.order = m
        /\ r.x.fe.value \in 0..(m - 1) /\ r.y.fe.value \in 0..(m - 1)
        /\ \E s \in 0..(m - 1) :
              /\ (s * (x2 - x1)) % m = (y2 - y1) % m
              /\ r.x.fe.value = (s * s - x1 - x2) % m
              /\ r.y.fe.value = (s * (x1 - r.x.fe.value) - y1) % m

\* r is the point the tangent formula gives for the finite point p:
\* s*(2*y1) = 3*x1^2 + a, x3 = s^2 - 2*x1, y3 = s*(x1 - x3) - y1
IsTangentPoint(r, p) ==
    LET m  == p.a.order
        x1 == p.x.fe.value
        y1 == p.y.fe.value
    IN  /\ IsFinitePoint(r)
        /\ r.a = p.a /\ r.b = p.b
        /\ r.x.fe.order = m /\ r.y.fe.order = m
        /\ r.x.fe.value \in 0..(m - 1) /\ r.y.fe.value \in 0..(m - 1)
        /\ \E s \in 0..(m - 1) :
              /\ (s * 2 * y1) % m = (3 * x1 * x1 + p.a.value) % m
              /\ r.x.fe.value = (s * s - 2 * x1) % m
              /\ r.y.fe.value = (s * (x1 - r.x.fe.value) - y1) % m

\* C15: for finite points of one curve, add returns the chord-formula point
\* when the x coordinates differ and the tangent-formula point when the
\* operands are equal with y != 0; over F_223 with a = 0, b = 7:
\* (170,142)+(60,139) = (220,181), (47,71)+(17,56) = (215,68),
\* (143,98)+(76,66) = (47,71) and (192,105)+(192,105) = (49,71).
C15_ChordAndTangent ==
    [][(AddPoints /\ IsFinitePoint(P) /\ IsFinitePoint(Q)
          /\ P.a = Q.a /\ P.b = Q.b)
          => /\ P.x.fe # Q.x.fe
                  => (res'.status = "ok" /\ IsChordPoint(P', P, Q))
             /\ (P = Q /\ ~is_zero(P.y.fe))
                  => (res'.status = "ok" /\ IsTangentPoint(P', P))
             /\ (P = VectorPoint(170, 142) /\ Q = VectorPoint(60, 139))
                  => P' = VectorPoint(220, 181)
             /\ (P = VectorPoint(47, 71) /\ Q = VectorPoint(17, 56))
                  => P' = VectorPoint(215, 68)
             /\ (P = VectorPoint(143, 98) /\ Q = VectorPoint(76, 66))
                  => P' = VectorPoint(47, 71)
             /\ (P = VectorPoint(192, 105) /\ Q = VectorPoint(192, 105))
                  => P' = VectorPoint(49, 71)]_vars

\* C16: for every prime order, (a / b) * b == a for every element a and
\* every nonzero element b of that order; with a the element one,
\* b * (one / b) == one.
C16_InverseRoundTrip ==
    [][(DivElements /\ e1.order = e2.order /\ ~is_zero(e2))
          => /\ fres'.status = "ok"
             /\ FieldMul(e1', e2) = e1
             /\ e1 = FieldElementNew(1, e1.order) => FieldMul(e2, e1') = e1]_vars

\* C17: for every field element e, neg(e) has the value
\* (order - value) mod order, so the negation of zero is zero, and
\* e + neg(e) is the zero element of the same order.
C17_AdditiveInverse ==
    [][NegElement
          => /\ fres'.status = "ok"
             /\ e1'.order = e1.order
             /\ IsEuclideanRemainder(e1'.value, e1.order - e1.value, e1.order)
             /\ is_zero(e1) => is_zero(e1')
             /\ FieldAdd(e1, e1') = FieldElementNew(0, e1.order)]_vars

\* the zero element of a field has been negated and is still zero
C17_Witness ==
    /\ fres.op = "neg"
    /\ fres.status = "ok"
    /\ is_zero(e1)
    /\ e1.order > 2

\* C18: for every prime order, every nonzero element e and all integers
\* m, n of the exponents' range, e.pow(m).pow(n) == e.pow(m*n mod (order-1)).
C18_PowerComposition ==
    [][\A m \in Exponents :
          (PowElement(m) /\ ~is_zero(e1))
              => /\ fres'.status = "ok"
                 /\ \A n \in Exponents :
                        pow(e1', n) = pow(e1, (m * n) % (e1.order - 1))]_vars

\* C19: for every prime order, every nonzero element e and every k > 0,
\* e.pow(-k) multiplied by e.pow(k) is the element one, in the
\* arbitrary-precision backend and in the fixed-width backend alike.
C19_NegativeExponent ==
    [][\A k \in 1..MaxExp :
          /\ (~IsU64(e1) /\ PowElement(-k) /\ ~is_zero(e1))
                => /\ fres'.status = "ok"
                   /\ FieldMul(e1', pow(e1, k)) = FieldElementNew(1, e1.order)
          /\ \A build \in Builds :
                (IsU64(e1) /\ U64PowElement(-k, build) /\ e1.num # 0)
                    => /\ fres'.status = "ok"
                       /\ U64Mul(e1', U64Pow(e1, k, build))
                              = U64FieldElementNew(1, e1.prime)]_vars

\* base^exp modulo m in the integers, by base^(i + j) = base^i * base^j
RECURSIVE PowerMod(_, _, _)
PowerMod(base, exp, m) ==
    IF exp = 0 THEN 1 % m
    ELSE IF exp = 1 THEN base % m
    ELSE (PowerMod(base, exp \div 2, m)
            * PowerMod(base, exp - (exp \div 2), m)) % m

\* C20: in the fixed-width backend mul, div, pow and mod_pow never overflow
\* before the reduction, for every order a machine word holds: they return,
\* without an overflow failure, the mathematical results modulo the order.
C20_NoOverflow ==
    [][IsU64(e1)
          => /\ (U64MulElements /\ e1.prime = e2.prime)
                  => /\ fres'.status = "ok"
                     /\ e1'.num = (e1.num * e2.num) % e1.prime
             /\ \A build \in Builds :
                  /\ (U64DivElements(build) /\ e1.prime = e2.prime
                         /\ e2.num # 0)
                        => /\ fres'.status = "ok"
                           /\ (e1'.num * e2.num) % e1.prime = e1.num
                  /\ \A n \in 0..MaxExp :
                        U64PowElement(n, build)
                            => /\ fres'.status = "ok"
                               /\ e1'.num = PowerMod(e1.num, n, e1.prime)
                  /\ ModPowNums(build)
                        => /\ fres'.status = "ok"
                           /\ e1'.num = PowerMod(e1.num, e2.num, e1.prime)]_vars

\* e added to itself k times, starting from the zero element of its field
RECURSIVE SumOfCopies(_, _)
SumOfCopies(e, k) ==
    IF k = 0 THEN FieldElementNew(0, e.order)
    ELSE FieldAdd(SumOfCopies(e, k - 1), e)

\* C21: for every field element e and every small non-negative integer k,
\* e.scale(k) equals e added to itself k times starting from zero: its
\* value is (k * value) mod order and its order is e's.
C21_ScaleIsRepeatedAddition ==
    [][\A k \in 0..MaxExp :
          ScaleElement(k)
          => /\ fres'.status = "ok"
             /\ e1' = SumOfCopies(e1, k)
             /\ e1'.order = e1.order
             /\ IsEuclideanRemainder(e1'.value, k * e1.value, e1.order)]_vars

\* a nonzero element has been scaled by two or more and the product
\* wrapped around the order
C21_Witness ==
    /\ fres.op = "scale"
    /\ fres.arg = "many"
    /\ fres.status = "ok"
    /\ e1.order > 2
    /\ \E v \in 1..(e1.order - 1) : \E k \in 2..MaxExp :
           /\ v * k > e1.order
           /\ e1 = scale(FieldElement(v, e1.order), k)

\* C23: after any sequence of EcPoint::new, add and scalar multiplication
\* no point has one Finite and one Infinity coordinate, no operation has
\* failed with the undefined-addition error, and adding any two of the
\* points obtained does not fail with it.
C23_NoUndefinedAddition ==
    /\ Shape(P.x, P.y) # "mixed"
    /\ Shape(Q.x, Q.y) # "mixed"
    /\ res.status # "UndefinedAddition"
    /\ \A l, r \in {P, Q} : Status(EcPointAdd(l, r)) # "UndefinedAddition"

\* two different finite points, the first the result of an addition
C23_Witness ==
    /\ res.op = "add"
    /\ res.status = "ok"
    /\ IsFinitePoint(P)
    /\ IsFinitePoint(Q)
    /\ P # Q

\* 2^n
RECURSIVE Pow2(_)
Pow2(n) == IF n = 0 THEN 1 ELSE 2 * Pow2(n - 1)

\* the number of binary digits of k >= 0 (none for 0)
BitLength(k) == CHOOSE n \in 0..(k + 1) : Pow2(n) > k /\ (n = 0 \/ Pow2(n - 1) <= k)

\* the number of set bits among the n lowest bits of k >= 0
SetBits(k, n) == Cardinality({i \in 0..(n - 1) : (k \div Pow2(i)) % 2 = 1})

\* C24: for every scalar k >= 0 and every valid point the loop of the scalar
\* multiplication terminates: every pass strictly decreases the remaining
\* scalar, which stays non-negative, and the loop is left when it is 0.  It
\* scans k from the least to the most significant bit, makes exactly
\* bit-length(k) iterations with one doubling each and one accumulator
\* addition per set bit, and no addition or doubling fails.
C24_LoopTerminates ==
    /\ [](frame.k >= 0
            => /\ frame.pc # "panicked"
               /\ frame.rhs = frame.k \div Pow2(frame.iterations)
               /\ frame.additions = SetBits(frame.k, frame.iterations)
               /\ frame.iterations <= BitLength(frame.k)
               /\ frame.pc = "loop"
                    => (frame.rhs > 0 <=> frame.iterations < BitLength(frame.k))
               /\ frame.pc = "done"
                    => /\ frame.iterations = BitLength(frame.k)
                       /\ frame.additions = SetBits(frame.k, BitLength(frame.k))
                       /\ res.status = "ok")
    /\ [][frame.k >= 0 /\ LoopIteration
            => /\ 0 <= frame'.rhs
               /\ frame'.rhs < frame.rhs
               /\ frame'.iterations = frame.iterations + 1
               /\ frame'.additions = frame.additions + (frame.rhs % 2)]_vars

\* a multiplication of a finite point by a scalar of four bits, two of them
\* set, has returned
C24_Witness ==
    /\ frame.pc = "done"
    /\ frame.k = 9
    /\ frame.iterations = 4
    /\ frame.additions = 2
    /\ IsFinitePoint(P)

\* what the implementation impl returns for the point p and the scalar k
MulBy(impl, p, k) ==
    IF impl = "EcPoint*i32" THEN EcPointMulI32(p, k)
    ELSE IF impl = "i32*EcPoint" THEN I32MulEcPoint(k, p)
    ELSE IF impl = "&EcPoint*Integer" THEN EcPointMulInteger(p, k)
    ELSE IntegerMulEcPoint(k, p)

C26_NegativeScalar ==
    frame.k < 0
        => /\ frame.iterations = 0
           /\ frame.additions = 0
           /\ frame.pc # "panicked"
           /\ frame.result = InfinityPoint(P.a, P.b)
           /\ frame.pc = "done" => res.status = "ok"
           /\ \A i \in Impls : MulBy(i, P, frame.k) = InfinityPoint(P.a, P.b)

\* a multiplication of a finite point by a scalar below -1 has returned
C26_Witness ==
    /\ frame.pc = "done"
    /\ frame.k < -1
    /\ frame.iterations = 0
    /\ IsFinitePoint(P)
    /\ IsInfinityPoint(frame.result)

\* C27: for every prime order, every element e, the zero element included,
\* and every exponent n >= 1, e.pow(n) has the value value^n mod order; the
\* zero element raised to a positive exponent, a multiple of order - 1
\* included, is the zero element.
C27_PowerOfZero ==
    [][\A n \in 1..MaxExp :
          PowElement(n)
          => /\ fres'.status = "ok"
             /\ e1'.order = e1.order
             /\ e1'.value = PowerMod(e1.value, n, e1.order)
             /\ is_zero(e1) => is_zero(e1')]_vars

====
